---- MODULE Spec2Model ----
(***************************************************************************)
(* CueBoard MIDI bridge (src-tauri/src/lib.rs): the two process-wide       *)
(* connection slots INPUT_CONN / OUTPUT_CONN, the six tauri commands and   *)
(* the input callback closure, over an abstract platform MIDI subsystem    *)
(* (midir): enumerate ports, connect to a port, send on a connection.      *)
(***************************************************************************)
EXTENDS Integers, Sequences, FiniteSets, TLC

\* ---------------------------------------------------------------- bounds
MaxIndex == 2      \* port_index arguments range over 0..MaxIndex
MaxConns == 3      \* connections the platform hands out in one run
MaxClock == 1      \* wall clock values 0..MaxClock (ms since the epoch)

\* ------------------------------------------------------- value universes
Dirs == {"input", "output"}

\* Threads the host may run commands on; SeqThreads is the host issuing
\* its commands one at a time on its calling thread.
Threads == {"t1", "t2"}
SeqThreads == {"t1"}

\* Port identities the platform knows, and the port lists it can report.
\* The platform cannot resolve a name for the ports in Nameless.
Ports == {"p1", "p2"}
Nameless == {"p2"}
PortLists == {<<"p1">>, <<"p2", "p1">>}

\* Byte sequences (hardware messages, and the argument of midi_send).
Msgs == {<<144>>, <<144, 60>>}

\* Option::None of a slot or of a local.
None == [id |-> 0, dir |-> "none", port |-> "none"]

VARIABLES
  side,       \* scenario: the direction whose commands the host uses in this run
  sysPorts,   \* platform: [Dirs -> port list] currently visible
  live,       \* platform: connections currently open
  nextId,     \* platform: connections handed out so far
  clock,      \* SystemTime::now() in ms since UNIX_EPOCH
  running,    \* platform: runs of the input callback in progress
  slot,       \* contents of INPUT_CONN / OUTPUT_CONN
  poisoned,   \* poison flag of each Mutex
  holder,     \* thread holding each Mutex's guard, or "none"
  pc,         \* position of each command thread
  cmd,        \* command each thread runs
  arg,        \* input_index / output_index
  bytes,      \* bytes argument of midi_send
  ports,      \* local `ports`
  port,       \* local `port`
  conn,       \* local `conn`
  result,     \* value the command returned
  atCall,     \* history: slot contents and poison flags when the command was called
  tx,         \* history: transmit calls made by the running command
  seen,       \* history: port lists returned by the command before the running one
  released,   \* history: ids of the connections dropped from a slot or a local
  cb,         \* history: the last run of the input callback
  dead        \* platform: ids of the connections whose callback thread panicked

vars == <<side, sysPorts, live, nextId, clock, running, slot, poisoned, holder, pc, cmd, arg,
          bytes, ports, port, conn, result, atCall, tx, seen, released, cb, dead>>

platformVars == <<side, sysPorts, live, nextId, clock, running>>
histVars == <<released, cb, dead>>

\* ------------------------------------------------------------- results
Ok(v) == [ok |-> TRUE, err |-> "", val |-> v]
Err(e) == [ok |-> FALSE, err |-> e, val |-> <<>>]
NoResult == [ok |-> FALSE, err |-> "running", val |-> <<>>]

ErrInit == "InitError"            \* midir::InitError.to_string()
ErrConnect == "ConnectError"      \* midir::ConnectError.to_string()
ErrSend == "SendError"            \* midir::SendError.to_string()
ErrLock == "Lock poisoned"
ErrNotConnected == "Output not connected"
ErrInvalidIndex(d) == IF d = "input" THEN "Invalid input index" ELSE "Invalid output index"

Commands == {"midi_list_inputs", "midi_list_outputs", "midi_open_input",
             "midi_open_output", "midi_send", "midi_refresh"}

\* the commands that work with one direction's ports and slot
CommandsOf(d) ==
  IF d = "input" THEN {"midi_list_inputs", "midi_open_input", "midi_refresh"}
  ELSE {"midi_list_outputs", "midi_open_output", "midi_send", "midi_refresh"}

\* ------------------------------------------------------------- helpers
\* midi_in.port_name(port).unwrap_or_else(|_| "Unknown")
port_name(p) == IF p \in Nameless THEN "Unknown" ELSE p

\* mutant: descriptor ids count from 1
MidiDeviceInfo_OneBased(ps, kind) ==
  [i \in 1..Len(ps) |-> [id |-> i, name |-> port_name(ps[i]), kind |-> kind]]

\* for (i, port) in ports.iter().enumerate() { out.push(MidiDeviceInfo{..}) }
MidiDeviceInfo(ps, kind) ==
  [i \in 1..Len(ps) |-> [id |-> i - 1, name |-> port_name(ps[i]), kind |-> kind]]

\* mutant: only the status byte is copied
to_vec_StatusOnly(m) == [i \in 1..(IF Len(m) > 0 THEN 1 ELSE 0) |-> m[i]]

\* message.to_vec()
to_vec(m) == [i \in 1..Len(m) |-> m[i]]

\* mutant: an out-of-range index is clamped to the last port
ports_get_Clamp(ps, index) ==
  IF index < Len(ps) THEN ps[index + 1]
  ELSE IF Len(ps) > 0 THEN ps[Len(ps)] ELSE "none"

\* ports.get(index)
ports_get(ps, index) == IF index < Len(ps) THEN ps[index + 1] ELSE "none"

\* dropping an Option<connection> closes the connection it holds
Drop(c) == IF c = None THEN {} ELSE {c}

DropId(c) == IF c = None THEN {} ELSE {c.id}

\* closing a connection joins its callback thread: the close completes when
\* no run of the connection's callback is in progress
Joined(c) == \A r \in running : r.conn # c

NotEnumerated == <<"none">>

NoCallback == [conn |-> None, message |-> <<>>, emits |-> <<>>, dropped |-> FALSE,
               others |-> FALSE, panicked |-> FALSE, now |-> 0, prev |-> <<>>]

\* The state after construction, for the directions ds the host may work
\* with and the wall clock values cs the process may start at (a negative
\* clock is a system time set before the Unix epoch).
InitWith(ds, cs) ==
  /\ side \in ds
  /\ sysPorts \in [Dirs -> PortLists]
  /\ live = {}
  /\ nextId = 0
  /\ clock \in cs
  /\ running = {}
  /\ slot = [d \in Dirs |-> None]
  /\ poisoned = [d \in Dirs |-> FALSE]
  /\ holder = [d \in Dirs |-> "none"]
  /\ pc = [t \in Threads |-> "idle"]
  /\ cmd = [t \in Threads |-> "none"]
  /\ arg = [t \in Threads |-> 0]
  /\ bytes = [t \in Threads |-> <<>>]
  /\ ports = [t \in Threads |-> <<>>]
  /\ port = [t \in Threads |-> "none"]
  /\ conn = [t \in Threads |-> None]
  /\ result = [t \in Threads |-> NoResult]
  /\ atCall = [t \in Threads |-> [slot |-> slot, poisoned |-> poisoned]]
  /\ tx = [t \in Threads |-> <<>>]
  /\ seen = [d \in Dirs |-> NotEnumerated]
  /\ released = {}
  /\ cb = NoCallback
  /\ dead = {}

Init == InitWith(Dirs, {0})

\* ------------------------------------------------ the host calls a command
\* invoke_handler: the host invokes one of the commands in cs with its arguments
Call(t, cs) ==
  /\ pc[t] \in {"idle", "done"}
  /\ \E c \in cs :
       /\ cmd' = [cmd EXCEPT ![t] = c]
       /\ \E i \in IF c \in {"midi_open_input", "midi_open_output"} THEN 0..MaxIndex ELSE {0} :
            arg' = [arg EXCEPT ![t] = i]
       /\ \E b \in IF c = "midi_send" THEN Msgs ELSE {<<>>} :
            bytes' = [bytes EXCEPT ![t] = b]
  /\ pc' = [pc EXCEPT ![t] = "entry"]
  /\ ports' = [ports EXCEPT ![t] = <<>>]
  /\ port' = [port EXCEPT ![t] = "none"]
  /\ conn' = [conn EXCEPT ![t] = None]
  /\ result' = [result EXCEPT ![t] = NoResult]
  /\ atCall' = [atCall EXCEPT ![t] = [slot |-> slot, poisoned |-> poisoned]]
  /\ tx' = [tx EXCEPT ![t] = <<>>]
  /\ seen' = IF cmd[t] \in {"midi_list_inputs", "midi_list_outputs", "midi_refresh"}
                THEN seen ELSE [d \in Dirs |-> NotEnumerated]
  /\ UNCHANGED <<platformVars, slot, poisoned, holder, histVars>>

\* the command returns r to the host
Return(t, r) ==
  /\ pc' = [pc EXCEPT ![t] = "done"]
  /\ result' = [result EXCEPT ![t] = r]

\* ------------------------------------------------------------ enumeration
\* midi_list_inputs / midi_list_outputs for direction d: MidiInput::new may
\* fail; otherwise one descriptor per visible port.
ListPorts(t, d) ==
  \E ok \in BOOLEAN :
    IF ok
      THEN /\ Return(t, Ok(MidiDeviceInfo(sysPorts[d], d)))
           /\ ports' = [ports EXCEPT ![t] = sysPorts[d]]
           /\ seen' = [seen EXCEPT ![d] = sysPorts[d]]
      ELSE /\ Return(t, Err(ErrInit))
           /\ UNCHANGED <<ports, seen>>

midi_list_inputs(t) ==
  /\ pc[t] = "entry" /\ cmd[t] = "midi_list_inputs"
  /\ ListPorts(t, "input")
  /\ UNCHANGED <<platformVars, slot, poisoned, holder, cmd, arg, bytes,
                 port, conn, atCall, tx, histVars>>

midi_list_outputs(t) ==
  /\ pc[t] = "entry" /\ cmd[t] = "midi_list_outputs"
  /\ ListPorts(t, "output")
  /\ UNCHANGED <<platformVars, slot, poisoned, holder, cmd, arg, bytes,
                 port, conn, atCall, tx, histVars>>

\* midi_refresh, first operand: inputs: midi_list_inputs()?
\* (ports[t] is the port list behind the local Vec of input descriptors)
RefreshInputs(t) ==
  /\ pc[t] = "entry"
  /\ \E ok \in BOOLEAN :
       IF ok
         THEN /\ pc' = [pc EXCEPT ![t] = "refresh_outputs"]
              /\ ports' = [ports EXCEPT ![t] = sysPorts["input"]]
              /\ UNCHANGED <<result, seen>>
         ELSE /\ Return(t, Err(ErrInit))
              /\ UNCHANGED <<ports, seen>>

\* mutant: a failed output enumeration yields a snapshot with no outputs
RefreshOutputs_Partial(t) ==
  /\ pc[t] = "refresh_outputs"
  /\ \E ok \in BOOLEAN :
       IF ok
         THEN /\ Return(t, Ok([inputs |-> MidiDeviceInfo(ports[t], "input"),
                               outputs |-> MidiDeviceInfo(sysPorts["output"], "output")]))
              /\ seen' = [d \in Dirs |-> IF d = "input" THEN ports[t]
                                                      ELSE sysPorts["output"]]
         ELSE /\ Return(t, Ok([inputs |-> MidiDeviceInfo(ports[t], "input"),
                               outputs |-> <<>>]))
              /\ seen' = [d \in Dirs |-> IF d = "input" THEN ports[t]
                                                      ELSE NotEnumerated]
  /\ UNCHANGED ports

\* midi_refresh, second operand: outputs: midi_list_outputs()?, then Ok(..)
RefreshOutputs(t) ==
  /\ pc[t] = "refresh_outputs"
  /\ \E ok \in BOOLEAN :
       IF ok
         THEN /\ Return(t, Ok([inputs |-> MidiDeviceInfo(ports[t], "input"),
                               outputs |-> MidiDeviceInfo(sysPorts["output"], "output")]))
              /\ seen' = [d \in Dirs |-> IF d = "input" THEN ports[t]
                                                      ELSE sysPorts["output"]]
         ELSE /\ Return(t, Err(ErrInit))
              /\ UNCHANGED seen
  /\ UNCHANGED ports

midi_refresh(t) ==
  /\ cmd[t] = "midi_refresh"
  /\ (RefreshInputs(t) \/ RefreshOutputs(t))
  /\ UNCHANGED <<platformVars, slot, poisoned, holder, cmd, arg, bytes,
                 port, conn, atCall, tx, histVars>>

\* ------------------------------------------------------------------ open
OpenCmd(d) == IF d = "input" THEN "midi_open_input" ELSE "midi_open_output"

\* MidiInput::new / MidiOutput::new, .ports(), ports.get(index).ok_or_else(..)?
OpenEnumerate(t, d) ==
  /\ pc[t] = "entry"
  /\ \E ok \in BOOLEAN :
       IF ~ok
         THEN /\ Return(t, Err(ErrInit))
              /\ UNCHANGED <<ports, port>>
         ELSE /\ ports' = [ports EXCEPT ![t] = sysPorts[d]]
              /\ port' = [port EXCEPT ![t] = ports_get(sysPorts[d], arg[t])]
              /\ IF ports_get(sysPorts[d], arg[t]) = "none"
                   THEN Return(t, Err(ErrInvalidIndex(d)))
                   ELSE /\ pc' = [pc EXCEPT ![t] = "lock_old"]
                        /\ UNCHANGED result
  /\ UNCHANGED <<platformVars, slot, poisoned, holder, conn, histVars>>

\* mutant: a poisoned lock is recovered (into_inner) instead of reported
OpenLockOld_Recover(t, d) ==
  /\ pc[t] = "lock_old"
  /\ holder[d] = "none"
  /\ holder' = [holder EXCEPT ![d] = t]
  /\ pc' = [pc EXCEPT ![t] = "drop_old"]
  /\ UNCHANGED <<platformVars, slot, poisoned, ports, port, conn, result, histVars>>

\* mutant: the "Drop old" block does not wait for the slot's guard
OpenLockOld_NoWait(t, d) ==
  /\ pc[t] = "lock_old"
  /\ IF poisoned[d]
       THEN /\ Return(t, Err(ErrLock))
            /\ UNCHANGED holder
       ELSE /\ holder' = [holder EXCEPT ![d] = t]
            /\ pc' = [pc EXCEPT ![t] = "drop_old"]
            /\ UNCHANGED result
  /\ UNCHANGED <<platformVars, slot, poisoned, ports, port, conn, histVars>>

\* "Drop old": let mut guard = CONN.lock().map_err(|_| "Lock poisoned")?
OpenLockOld(t, d) ==
  /\ pc[t] = "lock_old"
  /\ holder[d] = "none"
  /\ IF poisoned[d]
       THEN /\ Return(t, Err(ErrLock))
            /\ UNCHANGED holder
       ELSE /\ holder' = [holder EXCEPT ![d] = t]
            /\ pc' = [pc EXCEPT ![t] = "drop_old"]
            /\ UNCHANGED result
  /\ UNCHANGED <<platformVars, slot, poisoned, ports, port, conn, histVars>>

\* mutant: the "Drop old" block takes the lock but leaves the slot as it is
OpenDropOld_Skip(t, d) ==
  /\ pc[t] = "drop_old"
  /\ holder[d] = t
  /\ holder' = [holder EXCEPT ![d] = "none"]
  /\ pc' = [pc EXCEPT ![t] = "connect"]
  /\ UNCHANGED <<side, running, sysPorts, live, nextId, clock, slot, poisoned, ports, port,
                 conn, result, released, cb, dead>>

\* mutant: the slot is emptied but the old connection is leaked, not closed
OpenDropOld_Leak(t, d) ==
  /\ pc[t] = "drop_old"
  /\ holder[d] = t
  /\ slot' = [slot EXCEPT ![d] = None]
  /\ released' = released \cup DropId(slot[d])
  /\ holder' = [holder EXCEPT ![d] = "none"]
  /\ pc' = [pc EXCEPT ![t] = "connect"]
  /\ UNCHANGED <<side, running, sysPorts, live, nextId, clock, poisoned, ports, port, conn,
                 result, cb, dead>>

\* mutant: the "Drop old" block empties both slots
OpenDropOld_Both(t, d) ==
  /\ pc[t] = "drop_old"
  /\ holder[d] = t
  /\ slot' = [x \in Dirs |-> None]
  /\ live' = live \ (Drop(slot["input"]) \cup Drop(slot["output"]))
  /\ released' = released \cup DropId(slot["input"]) \cup DropId(slot["output"])
  /\ holder' = [holder EXCEPT ![d] = "none"]
  /\ pc' = [pc EXCEPT ![t] = "connect"]
  /\ UNCHANGED <<side, running, sysPorts, nextId, clock, poisoned, ports, port, conn, result, cb, dead>>

\* *guard = None; the connection held is closed, and the end of the block
\* releases the guard
OpenDropOld(t, d) ==
  /\ pc[t] = "drop_old"
  /\ holder[d] = t
  /\ Joined(slot[d])
  /\ slot' = [slot EXCEPT ![d] = None]
  /\ live' = live \ Drop(slot[d])
  /\ released' = released \cup DropId(slot[d])
  /\ holder' = [holder EXCEPT ![d] = "none"]
  /\ pc' = [pc EXCEPT ![t] = "connect"]
  /\ UNCHANGED <<side, running, sysPorts, nextId, clock, poisoned, ports, port, conn, result, cb, dead>>

\* mutant: the connection is made to the first port of the list, whatever
\* the index
OpenConnect_FirstPort(t, d) ==
  /\ pc[t] = "connect"
  /\ \E ok \in BOOLEAN :
       IF ok /\ nextId < MaxConns /\ (\E i \in 1..Len(sysPorts[d]) : sysPorts[d][i] = ports[t][1])
         THEN /\ nextId' = nextId + 1
              /\ conn' = [conn EXCEPT ![t] = [id |-> nextId + 1, dir |-> d, port |-> ports[t][1]]]
              /\ live' = live \cup {[id |-> nextId + 1, dir |-> d, port |-> ports[t][1]]}
              /\ pc' = [pc EXCEPT ![t] = "lock_new"]
              /\ UNCHANGED result
         ELSE /\ Return(t, Err(ErrConnect))
              /\ UNCHANGED <<nextId, conn, live>>
  /\ UNCHANGED <<side, running, sysPorts, clock, slot, poisoned, holder, ports, port, histVars>>

\* let conn = midi.connect(port, ..).map_err(|e| e.to_string())?
\* The platform refuses a port that is no longer visible, and may refuse
\* a visible one.
OpenConnect(t, d) ==
  /\ pc[t] = "connect"
  /\ \E ok \in BOOLEAN :
       IF ok /\ nextId < MaxConns /\ (\E i \in 1..Len(sysPorts[d]) : sysPorts[d][i] = port[t])
         THEN /\ nextId' = nextId + 1
              /\ conn' = [conn EXCEPT ![t] = [id |-> nextId + 1, dir |-> d, port |-> port[t]]]
              /\ live' = live \cup {[id |-> nextId + 1, dir |-> d, port |-> port[t]]}
              /\ pc' = [pc EXCEPT ![t] = "lock_new"]
              /\ UNCHANGED result
         ELSE /\ Return(t, Err(ErrConnect))
              /\ UNCHANGED <<nextId, conn, live>>
  /\ UNCHANGED <<side, running, sysPorts, clock, slot, poisoned, holder, ports, port, histVars>>

\* let mut guard = CONN.lock().map_err(|_| "Lock poisoned")?
\* On the error return the local conn goes out of scope and is closed.
OpenLockNew(t, d) ==
  /\ pc[t] = "lock_new"
  /\ holder[d] = "none"
  /\ IF poisoned[d]
       THEN /\ Joined(conn[t])
            /\ Return(t, Err(ErrLock))
            /\ live' = live \ Drop(conn[t])
            /\ released' = released \cup DropId(conn[t])
            /\ conn' = [conn EXCEPT ![t] = None]
            /\ UNCHANGED holder
       ELSE /\ holder' = [holder EXCEPT ![d] = t]
            /\ pc' = [pc EXCEPT ![t] = "store"]
            /\ UNCHANGED <<result, live, released, conn>>
  /\ UNCHANGED <<side, running, sysPorts, nextId, clock, slot, poisoned, ports, port, cb, dead>>

\* mutant: the value overwritten in the slot is leaked, not closed
OpenStore_Leak(t, d) ==
  /\ pc[t] = "store"
  /\ holder[d] = t
  /\ slot' = [slot EXCEPT ![d] = conn[t]]
  /\ conn' = [conn EXCEPT ![t] = None]
  /\ holder' = [holder EXCEPT ![d] = "none"]
  /\ Return(t, Ok(<<>>))
  /\ UNCHANGED <<side, running, sysPorts, live, nextId, clock, poisoned, ports, port, released, cb, dead>>

\* *guard = Some(conn); Ok(())  -- the value overwritten in the slot is dropped
OpenStore(t, d) ==
  /\ pc[t] = "store"
  /\ holder[d] = t
  /\ Joined(slot[d])
  /\ slot' = [slot EXCEPT ![d] = conn[t]]
  /\ live' = live \ Drop(slot[d])
  /\ released' = released \cup DropId(slot[d])
  /\ conn' = [conn EXCEPT ![t] = None]
  /\ holder' = [holder EXCEPT ![d] = "none"]
  /\ Return(t, Ok(<<>>))
  /\ UNCHANGED <<side, running, sysPorts, nextId, clock, poisoned, ports, port, cb, dead>>

Open(t, d) ==
  /\ \/ OpenEnumerate(t, d)
     \/ OpenLockOld(t, d)
     \/ OpenDropOld(t, d)
     \/ OpenConnect(t, d)
     \/ OpenLockNew(t, d)
     \/ OpenStore(t, d)
  /\ UNCHANGED <<cmd, arg, bytes, atCall, tx, seen>>

midi_open_input(t) == cmd[t] = "midi_open_input" /\ Open(t, "input")

midi_open_output(t) == cmd[t] = "midi_open_output" /\ Open(t, "output")

\* ------------------------------------------------------------------ send
\* let mut g = OUTPUT_CONN.lock().map_err(|_| "Lock poisoned")?
SendLock(t) ==
  /\ pc[t] = "entry"
  /\ holder["output"] = "none"
  /\ IF poisoned["output"]
       THEN /\ Return(t, Err(ErrLock))
            /\ UNCHANGED holder
       ELSE /\ holder' = [holder EXCEPT !["output"] = t]
            /\ pc' = [pc EXCEPT ![t] = "transmit"]
            /\ UNCHANGED result
  /\ UNCHANGED <<slot, conn, tx>>

\* mutant: an empty slot is reported as a successful send
SendTransmit_EmptyOk(t) ==
  /\ pc[t] = "transmit"
  /\ holder["output"] = t
  /\ IF slot["output"] # None
       THEN /\ conn' = [conn EXCEPT ![t] = slot["output"]]
            /\ pc' = [pc EXCEPT ![t] = "sending"]
            /\ UNCHANGED <<holder, result>>
       ELSE /\ holder' = [holder EXCEPT !["output"] = "none"]
            /\ Return(t, Ok(<<>>))
            /\ UNCHANGED conn
  /\ UNCHANGED <<slot, tx>>

\* if let Some(conn) = g.as_mut() { conn.send(&bytes).. } else { Err(..) }
\* With the guard held: an empty slot returns the not-connected error (the
\* guard is dropped on return); otherwise conn borrows the slot's connection
\* and the platform's send starts.
SendTransmit(t) ==
  /\ pc[t] = "transmit"
  /\ holder["output"] = t
  /\ IF slot["output"] # None
       THEN /\ conn' = [conn EXCEPT ![t] = slot["output"]]
            /\ pc' = [pc EXCEPT ![t] = "sending"]
            /\ UNCHANGED <<holder, result>>
       ELSE /\ holder' = [holder EXCEPT !["output"] = "none"]
            /\ Return(t, Err(ErrNotConnected))
            /\ UNCHANGED conn
  /\ UNCHANGED <<slot, tx>>

\* mutant: a transmit failure disconnects the output
SendReturn_Disconnect(t) ==
  /\ pc[t] = "sending"
  /\ \E ok \in BOOLEAN :
       /\ tx' = [tx EXCEPT ![t] = Append(tx[t], [conn |-> conn[t],
                                                 data |-> bytes[t],
                                                 open |-> conn[t] \in live,
                                                 inSlot |-> slot["output"] = conn[t],
                                                 ok |-> ok])]
       /\ Return(t, IF ok THEN Ok(<<>>) ELSE Err(ErrSend))
       /\ slot' = IF ok THEN slot ELSE [slot EXCEPT !["output"] = None]
  /\ conn' = [conn EXCEPT ![t] = None]
  /\ holder' = [holder EXCEPT !["output"] = "none"]

\* conn.send(&bytes).map_err(|e| e.to_string()): the one platform send of the
\* bytes, as given, on the borrowed connection completes, with success or
\* the platform's error; the borrow ends and the guard is dropped on return.
\* The record says whether the connection was still open, and still the
\* slot's, when the send completed.
SendReturn(t) ==
  /\ pc[t] = "sending"
  /\ \E ok \in BOOLEAN :
       /\ tx' = [tx EXCEPT ![t] = Append(tx[t], [conn |-> conn[t],
                                                 data |-> bytes[t],
                                                 open |-> conn[t] \in live,
                                                 inSlot |-> slot["output"] = conn[t],
                                                 ok |-> ok])]
       /\ Return(t, IF ok THEN Ok(<<>>) ELSE Err(ErrSend))
       /\ UNCHANGED slot
  /\ conn' = [conn EXCEPT ![t] = None]
  /\ holder' = [holder EXCEPT !["output"] = "none"]

midi_send(t) ==
  /\ cmd[t] = "midi_send"
  /\ (SendLock(t) \/ SendTransmit(t) \/ SendReturn(t))
  /\ UNCHANGED <<platformVars, poisoned, cmd, arg, bytes, ports, port,
                 atCall, seen, histVars>>

\* ----------------------------------------------------- the input callback
\* SystemTime::now().duration_since(UNIX_EPOCH): Ok for a clock at or after
\* the epoch, Err for one before it
duration_since_epoch_ok(now) == now >= 0

\* the timestamp of the last notification the connection c emitted, if any
PrevTimestamp(c) ==
  IF cb.conn = c /\ cb.emits # <<>>
    THEN << cb.emits[1].payload.timestamp_ms >>
    ELSE IF cb.conn = c THEN cb.prev ELSE <<>>

\* mutant: the timestamp is taken in whole seconds
Callback_Seconds(c, message) ==
  /\ c \in live /\ c.dir = "input"
  /\ c.id \notin dead
  /\ IF duration_since_epoch_ok(clock)
       THEN /\ \E delivered \in BOOLEAN :
                 cb' = [conn |-> c,
                        message |-> message,
                        emits |-> << [event |-> "midi://message",
                                      payload |-> [timestamp_ms |-> clock \div 1000,
                                                   data |-> to_vec(message)],
                                      delivered |-> delivered] >>,
                        dropped |-> c.id \in released,
                        others |-> \E x \in live : x.dir = "input" /\ x # c,
                        panicked |-> FALSE,
                        now |-> clock,
                        prev |-> PrevTimestamp(c)]
            /\ UNCHANGED dead
       ELSE /\ cb' = [conn |-> c,
                      message |-> message,
                      emits |-> <<>>,
                      dropped |-> c.id \in released,
                      others |-> \E x \in live : x.dir = "input" /\ x # c,
                      panicked |-> TRUE,
                      now |-> clock,
                      prev |-> PrevTimestamp(c)]
            /\ dead' = dead \cup {c.id}
  /\ UNCHANGED <<side, sysPorts, live, nextId, clock, slot, poisoned, holder, pc, cmd,
                 arg, bytes, ports, port, conn, result, atCall, tx, seen, released>>

\* move |_, message, _| { let payload = MidiMessage{..}; let _ = window.emit(..) }
\* The platform runs the callback of an open input connection, on that
\* connection's thread, once per message it receives. .unwrap() panics on a
\* clock before the epoch, which ends the thread; otherwise the payload is
\* emitted once, window.emit may fail to deliver and its result is ignored.
Callback(c, message) ==
  /\ c \in live /\ c.dir = "input"
  /\ c.id \notin dead
  /\ IF duration_since_epoch_ok(clock)
       THEN /\ \E delivered \in BOOLEAN :
                 cb' = [conn |-> c,
                        message |-> message,
                        emits |-> << [event |-> "midi://message",
                                      payload |-> [timestamp_ms |-> clock,
                                                   data |-> to_vec(message)],
                                      delivered |-> delivered] >>,
                        dropped |-> c.id \in released,
                        others |-> \E x \in live : x.dir = "input" /\ x # c,
                        panicked |-> FALSE,
                        now |-> clock,
                        prev |-> PrevTimestamp(c)]
            /\ UNCHANGED dead
       ELSE /\ cb' = [conn |-> c,
                      message |-> message,
                      emits |-> <<>>,
                      dropped |-> c.id \in released,
                      others |-> \E x \in live : x.dir = "input" /\ x # c,
                      panicked |-> TRUE,
                      now |-> clock,
                      prev |-> PrevTimestamp(c)]
            /\ dead' = dead \cup {c.id}
  /\ UNCHANGED <<side, sysPorts, live, nextId, clock, slot, poisoned, holder, pc, cmd,
                 arg, bytes, ports, port, conn, result, atCall, tx, seen, released>>

\* the platform delivers a message: one whole run of the callback
InputCallback ==
  /\ \E c \in live, message \in Msgs : Callback(c, message)
  /\ UNCHANGED running

\* the messages delivered where the runs of the callback are interleaved
\* with the commands
LiveMsgs == {<<144>>}

\* The same run in two steps, for the interleavings of a run of the callback
\* with the commands: the platform's thread of an open input connection
\* enters the callback with a message ...
CallbackBegin ==
  /\ \E c \in live, message \in LiveMsgs :
       /\ c.dir = "input"
       /\ c.id \notin dead
       /\ Joined(c)
       /\ running' = running \cup {[conn |-> c, message |-> message]}
  /\ UNCHANGED <<side, sysPorts, live, nextId, clock, slot, poisoned, holder, pc, cmd,
                 arg, bytes, ports, port, conn, result, atCall, tx, seen, histVars>>

\* mutant: the callback takes the input slot's lock before it emits
CallbackEndOf_Locks(r) ==
  /\ r \in running
  /\ holder["input"] = "none"
  /\ Callback(r.conn, r.message)
  /\ running' = running \ {r}

\* ... and the run r of the callback runs to its end. It takes no lock:
\* nothing in the closure names INPUT_CONN or OUTPUT_CONN.
CallbackEndOf(r) ==
  /\ r \in running
  /\ Callback(r.conn, r.message)
  /\ running' = running \ {r}

\* the runs of the callback there can be
Runs == [conn : [id : 1..MaxConns, dir : {"input"}, port : Ports], message : Msgs]

CallbackEnd == \E r \in Runs : CallbackEndOf(r)

\* ------------------------------------------------------------ environment
\* devices of direction d are plugged, unplugged or reordered between
\* platform calls
HotPlugOf(d) ==
  /\ \E ps \in PortLists :
       /\ ps # sysPorts[d]
       /\ sysPorts' = [sysPorts EXCEPT ![d] = ps]
  /\ UNCHANGED <<side, running, live, nextId, clock, slot, poisoned, holder, pc, cmd, arg, bytes,
                 ports, port, conn, result, atCall, tx, seen, histVars>>

HotPlug == \E d \in Dirs : HotPlugOf(d)

\* a panic elsewhere while the guard of slot d was held leaves its Mutex
\* poisoned
PoisonLockOf(d) ==
  /\ holder[d] = "none"
  /\ ~poisoned[d]
  /\ poisoned' = [poisoned EXCEPT ![d] = TRUE]
  /\ UNCHANGED <<platformVars, slot, holder, pc, cmd, arg, bytes, ports, port,
                 conn, result, atCall, tx, seen, histVars>>

PoisonLock == \E d \in Dirs : PoisonLockOf(d)

\* the wall clock advances
Tick ==
  /\ clock < MaxClock
  /\ clock' = clock + 1
  /\ UNCHANGED <<side, running, sysPorts, live, nextId, slot, poisoned, holder, pc, cmd, arg,
                 bytes, ports, port, conn, result, atCall, tx, seen, histVars>>

\* ------------------------------------------------------- specifications
\* The command surface: the host issues the commands of one direction, one
\* at a time, while devices come and go and a slot's lock may get poisoned.
Next ==
  \/ \E t \in SeqThreads :
       \/ Call(t, CommandsOf(side))
       \/ midi_list_inputs(t)
       \/ midi_list_outputs(t)
       \/ midi_open_input(t)
       \/ midi_open_output(t)
       \/ midi_send(t)
       \/ midi_refresh(t)
  \/ HotPlug
  \/ PoisonLock

Spec == Init /\ [][Next]_vars

\* The input bridge: the host opens input connections one at a time while
\* the platform delivers messages to the callback and the clock advances.
InitBridge == InitWith({"input"}, {-1, 0}) /\ sysPorts["output"] = <<"p1">>

NextBridge ==
  \/ \E t \in SeqThreads : Call(t, {"midi_open_input"}) \/ midi_open_input(t)
  \/ InputCallback
  \/ HotPlugOf("input")
  \/ PoisonLockOf("input")
  \/ Tick

SpecBridge == InitBridge /\ [][NextBridge]_vars

\* The whole command surface: the host issues any of the six commands, one
\* at a time, on both directions, while a slot's lock may get poisoned.
InitBoth == InitWith({"both"}, {0})

NextBoth ==
  \/ \E t \in SeqThreads :
       \/ Call(t, Commands)
       \/ midi_list_inputs(t)
       \/ midi_list_outputs(t)
       \/ midi_open_input(t)
       \/ midi_open_output(t)
       \/ midi_send(t)
       \/ midi_refresh(t)
  \/ PoisonLock

SpecBoth == InitBoth /\ [][NextBoth]_vars

\* Concurrent hosts: two threads run the slot commands of one direction at
\* the same time, their steps interleaved, while the direction's lock may
\* get poisoned.
SlotCommandsOf(d) ==
  IF d = "input" THEN {"midi_open_input"} ELSE {"midi_open_output", "midi_send"}

\* a step of the command thread t is running
Step(t) ==
  \/ midi_list_inputs(t)
  \/ midi_list_outputs(t)
  \/ midi_open_input(t)
  \/ midi_open_output(t)
  \/ midi_send(t)
  \/ midi_refresh(t)

\* both directions report the same devices
InitConc == Init /\ sysPorts["input"] = sysPorts["output"]

NextConc ==
  \/ \E t \in Threads :
       \/ Call(t, SlotCommandsOf(side))
       \/ midi_open_input(t)
       \/ midi_open_output(t)
       \/ midi_send(t)
  \/ \E d \in Dirs : d = side /\ PoisonLockOf(d)

SpecConc == InitConc /\ [][NextConc]_vars

\* Concurrent hosts and the callback, with scheduling: two threads run the
\* commands of one direction while runs of the callback begin and end and the
\* direction's lock may get poisoned. Every running
\* command thread keeps being scheduled and a thread waiting in lock(), or in
\* the close of a connection, goes on when what it waits for is free again
\* and again; a run of the callback that has begun runs to its end. Each
\* of the two threads issues one command, at any time.
InitLive == InitWith(Dirs, {0}) /\ sysPorts = [d \in Dirs |-> <<"p1">>]

NextLive ==
  \/ \E t \in Threads :
       \/ pc[t] = "idle" /\ Call(t, CommandsOf(side))
       \/ midi_list_inputs(t)
       \/ midi_list_outputs(t)
       \/ midi_open_input(t)
       \/ midi_open_output(t)
       \/ midi_send(t)
       \/ midi_refresh(t)
  \/ CallbackBegin
  \/ CallbackEnd
  \/ \E d \in Dirs : d = side /\ PoisonLockOf(d)

Fairness ==
  /\ \A t \in Threads : SF_vars(Step(t))
  /\ \A r \in Runs : WF_vars(CallbackEndOf(r))

SpecLive == InitLive /\ [][NextLive]_vars /\ Fairness

\* ================================================================ claims
Opens == {"midi_open_input", "midi_open_output"}

\* the direction an open or send command works on
DirOf(c) == IF c = "midi_open_input" THEN "input" ELSE "output"

LiveOf(d) == {c \in live : c.dir = d}

Returned(t, c) == pc[t] = "done" /\ cmd[t] = c

\* C1: with commands issued one at a time, in every state (the steps inside
\* an open included) at most one connection per direction is open, and when
\* an open is about to call the platform connect the slot has been emptied
\* and the connection it held has been closed.
C1_OneLivePerDirection ==
  /\ \A d \in Dirs : Cardinality(LiveOf(d)) <= 1
  /\ \A d \in Dirs : slot[d] # None => slot[d] \in LiveOf(d)
  /\ \A t \in Threads :
       (pc[t] = "connect" /\ cmd[t] \in Opens) =>
         /\ slot[DirOf(cmd[t])] = None
         /\ LiveOf(DirOf(cmd[t])) = {}
         /\ DropId(atCall[t].slot[DirOf(cmd[t])]) \subseteq released

\* an open that replaced an active connection has made its new connection
C1_Witness ==
  \E t \in Threads :
    /\ pc[t] = "lock_new" /\ cmd[t] \in Opens
    /\ atCall[t].slot[DirOf(cmd[t])] # None
    /\ conn[t] \in live

\* C2: an open whose index is outside [0, N), N the length of the port list
\* it enumerated, fails with the invalid-index error and its slot holds the
\* same connection, still open, (or emptiness) as before the call.
C2_InvalidIndexLeavesSlot ==
  \A t \in Threads :
    (/\ pc[t] = "done" /\ cmd[t] \in Opens
     /\ result[t].err # ErrInit
     /\ arg[t] >= Len(ports[t])) =>
       /\ result[t] = Err(ErrInvalidIndex(DirOf(cmd[t])))
       /\ slot[DirOf(cmd[t])] = atCall[t].slot[DirOf(cmd[t])]
       /\ Drop(slot[DirOf(cmd[t])]) \subseteq live

\* an open with an out-of-range index has failed while a connection was active
C2_Witness ==
  \E t \in Threads :
    /\ pc[t] = "done" /\ cmd[t] \in Opens
    /\ result[t].err = ErrInvalidIndex(DirOf(cmd[t]))
    /\ arg[t] >= Len(ports[t])
    /\ atCall[t].slot[DirOf(cmd[t])] # None

\* C3 (as claimed): whenever an open returns a failure, for any reason, its
\* slot still holds the connection that was active before the call.
C3_AtomicInstall ==
  \A t \in Threads :
    (pc[t] = "done" /\ cmd[t] \in Opens /\ ~result[t].ok) =>
       slot[DirOf(cmd[t])] = atCall[t].slot[DirOf(cmd[t])]

\* C4 (as claimed): whenever the output slot is empty, midi_send fails with
\* the not-connected error, transmits nothing and leaves both slots unchanged.
C4_SendEmptyNotConnected ==
  \A t \in Threads :
    (Returned(t, "midi_send") /\ atCall[t].slot["output"] = None) =>
       /\ result[t] = Err(ErrNotConnected)
       /\ tx[t] = <<>>
       /\ slot = atCall[t].slot

\* C4 (amended): whenever the output slot is empty, midi_send transmits
\* nothing, leaves both slots unchanged and fails: with the not-connected
\* error when the output lock is not poisoned, with the lock error when it is.
C4_SendEmptyFails ==
  \A t \in Threads :
    (Returned(t, "midi_send") /\ atCall[t].slot["output"] = None) =>
       /\ tx[t] = <<>>
       /\ slot = atCall[t].slot
       /\ result[t] \in {Err(ErrNotConnected), Err(ErrLock)}
       /\ atCall[t].poisoned["output"] => result[t] = Err(ErrLock)
       /\ ~poisoned["output"] => result[t] = Err(ErrNotConnected)

\* a send on an empty output slot has failed with the not-connected error
C4_Witness ==
  \E t \in Threads :
    /\ Returned(t, "midi_send")
    /\ atCall[t].slot["output"] = None
    /\ result[t] = Err(ErrNotConnected)

\* C5: after a successful midi_open_output that replaced an active connection
\* exactly one output connection is open: the new one, held by the slot and
\* connected to the port at the given index; the replaced one was closed
\* before the new one was made, and every transmit of a later midi_send goes
\* to the open connection the slot holds.
C5_SecondOutputOnly ==
  \A t \in Threads :
    /\ (Returned(t, "midi_open_output") /\ result[t].ok) =>
         /\ LiveOf("output") = {slot["output"]}
         /\ slot["output"].port = ports[t][arg[t] + 1]
         /\ slot["output"] # atCall[t].slot["output"]
    /\ (cmd[t] = "midi_open_output" /\ (pc[t] \in {"lock_new", "store"} \/ result[t].ok)) =>
         atCall[t].slot["output"] \notin live
    /\ (Returned(t, "midi_send") /\ tx[t] # <<>>) =>
         /\ Len(tx[t]) = 1
         /\ tx[t][1].conn = slot["output"]
         /\ tx[t][1].open
         /\ LiveOf("output") = {slot["output"]}

\* a send has transmitted on a second output connection, to another port
\* than the first, after the first was replaced
C5_Witness ==
  \E t \in Threads :
    /\ Returned(t, "midi_send") /\ tx[t] # <<>>
    /\ tx[t][1].conn.id = 2 /\ 1 \in released
    /\ tx[t][1].conn.port = "p2"

\* C6: a callback never runs for an input connection that an open has
\* dropped, and never while another input connection is open: no closed
\* connection is still open at the platform, and every run of the callback
\* was for a connection that had not been dropped and was the only open one.
C6_NoCallbackAfterDrop ==
  /\ \A c \in live : c.id \notin released
  /\ cb.conn # None => (~cb.dropped /\ ~cb.others)

\* the callback has run for a replacement connection after the previous
\* input connection was dropped
C6_Witness ==
  /\ cb.conn # None
  /\ cb.conn.id = 2
  /\ 1 \in released
  /\ slot["input"] = cb.conn

\* C7: each run of the callback, i.e. each message received on an open input
\* connection, makes exactly one emit on "midi://message" whose data is the
\* received message, byte for byte.
C7_OneEmitPerMessage ==
  cb.conn # None =>
    /\ Len(cb.emits) = 1
    /\ cb.emits[1].event = "midi://message"
    /\ Len(cb.emits[1].payload.data) = Len(cb.message)
    /\ \A i \in 1..Len(cb.message) : cb.emits[1].payload.data[i] = cb.message[i]

\* a two-byte message has been received on the connection held by the slot
C7_Witness ==
  /\ cb.conn # None
  /\ cb.conn = slot["input"]
  /\ Len(cb.message) = 2

\* C8 (as claimed): once a slot's lock is poisoned, every later operation on
\* that slot fails with the lock error, whatever its argument (here: even
\* granted that the platform subsystem can be initialised).
C8_PoisonedAlwaysLockError ==
  \A t \in Threads :
    (/\ pc[t] = "done" /\ cmd[t] \in Opens \cup {"midi_send"}
     /\ atCall[t].poisoned[DirOf(cmd[t])]
     /\ result[t] # Err(ErrInit)) =>
       result[t] = Err(ErrLock)

\* C8 (amended): once a slot's lock is poisoned, a later operation on that slot
\* never gets past its first lock acquisition (so it changes no slot, makes no
\* connection, transmits nothing) and fails: midi_send with the lock error, an
\* open with the enumeration error if its enumeration fails, with the
\* invalid-index error if its index is out of range, else with the lock error.
C8_PoisonedFails ==
  \A t \in Threads :
    (/\ cmd[t] \in Opens \cup {"midi_send"}
     /\ pc[t] # "idle"
     /\ atCall[t].poisoned[DirOf(cmd[t])]) =>
       /\ pc[t] \in {"entry", "lock_old", "done"}
       /\ slot = atCall[t].slot
       /\ tx[t] = <<>>
       /\ conn[t] = None
       /\ pc[t] = "done" =>
            /\ ~result[t].ok
            /\ cmd[t] = "midi_send" => result[t] = Err(ErrLock)
            /\ cmd[t] \in Opens =>
                 \/ result[t] = Err(ErrInit)
                 \/ result[t] = IF arg[t] >= Len(ports[t])
                                 THEN Err(ErrInvalidIndex(DirOf(cmd[t])))
                                 ELSE Err(ErrLock)

\* an open with a valid index has failed on a lock that was poisoned while
\* its slot held a connection
C8_Witness ==
  \E t \in Threads :
    /\ pc[t] = "done" /\ cmd[t] \in Opens
    /\ atCall[t].poisoned[DirOf(cmd[t])]
    /\ atCall[t].slot[DirOf(cmd[t])] # None
    /\ result[t] = Err(ErrLock)

\* the descriptors an enumeration of the port list ps yields for a direction
Descriptors(list, ps, kind) ==
  /\ Len(list) = Len(ps)
  /\ \A i \in 1..Len(ps) :
       /\ list[i].id = i - 1
       /\ list[i].kind = kind
       /\ list[i].name = IF ps[i] \in Nameless THEN "Unknown" ELSE ps[i]

\* C9: midi_refresh returns either a snapshot with exactly the K input and M
\* output descriptors its two enumerations yielded, in order, or the
\* enumeration error and no snapshot.
C9_RefreshAllOrNothing ==
  \A t \in Threads :
    Returned(t, "midi_refresh") =>
      IF result[t].ok
        THEN /\ seen["output"] # NotEnumerated
             /\ Descriptors(result[t].val.inputs, ports[t], "input")
             /\ Descriptors(result[t].val.outputs, seen["output"], "output")
        ELSE result[t] = Err(ErrInit)

\* a refresh has returned a snapshot with different numbers of inputs and outputs
C9_Witness ==
  \E t \in Threads :
    /\ Returned(t, "midi_refresh") /\ result[t].ok
    /\ Len(result[t].val.inputs) = 2
    /\ Len(result[t].val.outputs) = 1

\* C10 (as claimed): an open with an index valid in the port list returned by
\* the preceding enumeration command does not fail on the index, and when it
\* succeeds its slot holds a connection to the port that had that index in
\* that enumeration.
C10_OpenEnumeratedPort ==
  \A t \in Threads :
    (/\ pc[t] = "done" /\ cmd[t] \in Opens
     /\ seen[DirOf(cmd[t])] # NotEnumerated
     /\ arg[t] < Len(seen[DirOf(cmd[t])])) =>
       /\ result[t].err # ErrInvalidIndex(DirOf(cmd[t]))
       /\ result[t].ok => slot[DirOf(cmd[t])].port = seen[DirOf(cmd[t])][arg[t] + 1]

\* C10 (amended): an open with an index valid in the port list enumerated
\* inside the open fails only with the platform's connect error or, the lock
\* being poisoned, the lock error; when it succeeds its slot holds an open
\* connection to the port at that index of that list.
C10_OpenIndexedPort ==
  \A t \in Threads :
    (/\ pc[t] = "done" /\ cmd[t] \in Opens
     /\ result[t].err # ErrInit
     /\ arg[t] < Len(ports[t])) =>
       /\ result[t] \in {Ok(<<>>), Err(ErrConnect), Err(ErrLock)}
       /\ result[t] = Err(ErrLock) => poisoned[DirOf(cmd[t])]
       /\ result[t].ok =>
            /\ slot[DirOf(cmd[t])] \in live
            /\ slot[DirOf(cmd[t])].dir = DirOf(cmd[t])
            /\ slot[DirOf(cmd[t])].port = ports[t][arg[t] + 1]

\* an open has succeeded after the port list changed since the preceding
\* enumeration command
C10_Witness ==
  \E t \in Threads :
    /\ pc[t] = "done" /\ cmd[t] \in Opens /\ result[t].ok
    /\ seen[DirOf(cmd[t])] # NotEnumerated
    /\ seen[DirOf(cmd[t])] # ports[t]
    /\ arg[t] = 1
    /\ slot[DirOf(cmd[t])].port = ports[t][2]

\* C11: nothing inside the callback ends its thread: no run of the callback
\* panics, every run makes its delivery attempt whether or not the sink takes
\* it, and every open input connection still has a running callback thread,
\* so that later messages on it are still handed to the callback.
C11_CallbackNeverDies ==
  /\ cb.conn # None => (~cb.panicked /\ Len(cb.emits) = 1)
  /\ \A c \in LiveOf("input") : c.id \notin dead

\* C12 (as claimed): a midi_send called with an output connection in the
\* slot makes exactly one transmit, on that connection and with the bytes it
\* was given, returns success or the transmit error as the platform reported,
\* and leaves the slot holding that connection.
C12_SendActiveTransmits ==
  \A t \in Threads :
    (Returned(t, "midi_send") /\ atCall[t].slot["output"] # None) =>
      /\ Len(tx[t]) = 1
      /\ tx[t][1].conn = atCall[t].slot["output"]
      /\ tx[t][1].data = bytes[t]
      /\ result[t] = IF tx[t][1].ok THEN Ok(<<>>) ELSE Err(ErrSend)
      /\ slot["output"] = atCall[t].slot["output"]

\* C12 (amended): a midi_send called with an output connection in the slot
\* leaves the slot holding that connection; unless it fails with the lock
\* error, which it does on a poisoned lock only and without transmitting, it
\* makes exactly one transmit, on that connection and with the bytes it was
\* given, and returns success or the transmit error as the platform reported.
C12_SendActiveHealthy ==
  \A t \in Threads :
    (Returned(t, "midi_send") /\ atCall[t].slot["output"] # None) =>
      /\ slot["output"] = atCall[t].slot["output"]
      /\ slot["output"] \in live
      /\ result[t] = Err(ErrLock) => (poisoned["output"] /\ tx[t] = <<>>)
      /\ result[t] # Err(ErrLock) =>
           /\ Len(tx[t]) = 1
           /\ tx[t][1].conn = atCall[t].slot["output"]
           /\ tx[t][1].data = bytes[t]
           /\ result[t] = IF tx[t][1].ok THEN Ok(<<>>) ELSE Err(ErrSend)

\* a two-byte send on the active connection has failed at the platform, on a
\* healthy lock, and the slot still holds the connection
C12_Witness ==
  \E t \in Threads :
    /\ Returned(t, "midi_send")
    /\ atCall[t].slot["output"] # None
    /\ ~poisoned["output"]
    /\ Len(bytes[t]) = 2
    /\ tx[t] # <<>> /\ ~tx[t][1].ok
    /\ result[t] = Err(ErrSend)
    /\ slot["output"] = tx[t][1].conn

\* C13: midi_list_inputs / midi_list_outputs return one descriptor per port
\* the platform reported, in the platform's order, with ids 0..N-1, the kind
\* of the direction asked for and the name "Unknown" for a port whose name
\* cannot be resolved; the only failure is the subsystem's initialisation
\* error.
C13_ListDescriptors ==
  \A t \in Threads, d \in Dirs :
    Returned(t, IF d = "input" THEN "midi_list_inputs" ELSE "midi_list_outputs") =>
      IF result[t].ok
        THEN /\ ports[t] \in PortLists
             /\ seen[d] = ports[t]
             /\ Descriptors(result[t].val, ports[t], d)
             /\ \A i \in 1..Len(result[t].val) : result[t].val[i].id = i - 1
        ELSE result[t] = Err(ErrInit)

\* midi_list_outputs has returned two descriptors, the first for a port
\* whose name cannot be resolved
C13_Witness ==
  \E t \in Threads :
    /\ Returned(t, "midi_list_outputs") /\ result[t].ok
    /\ ports[t] = <<"p2", "p1">>
    /\ Len(result[t].val) = 2
    /\ result[t].val[1].name = "Unknown"
    /\ result[t].val[2].name = "p1"

\* C14: the wall clock never going back, every notification carries the
\* clock value, in ms since the epoch, at which its callback ran, and that
\* value is not below the timestamp of the previous notification the same
\* connection emitted.
C14_TimestampsNonDecreasing ==
  (cb.conn # None /\ cb.emits # <<>>) =>
    /\ cb.emits[1].payload.timestamp_ms = cb.now
    /\ cb.emits[1].payload.timestamp_ms >= 0
    /\ cb.prev # <<>> => cb.prev[1] <= cb.emits[1].payload.timestamp_ms

\* a connection has emitted a second notification after the clock advanced
C14_Witness ==
  /\ cb.conn # None /\ cb.emits # <<>>
  /\ cb.prev = <<0>>
  /\ cb.emits[1].payload.timestamp_ms = 1
  /\ cb.conn = slot["input"]

\* C15: a command changes no slot but its own. While it runs and when it has
\* returned, with success or with an error, midi_open_input has left the
\* output slot, midi_open_output and midi_send have left the input slot, and
\* the enumeration commands have left both slots, holding what they held when
\* the command was called, and a connection held there is still open.
C15_OwnSlotOnly ==
  \A t \in SeqThreads :
    pc[t] # "idle" =>
      LET others == CASE cmd[t] = "midi_open_input" -> {"output"}
                      [] cmd[t] \in {"midi_open_output", "midi_send"} -> {"input"}
                      [] OTHER -> Dirs
      IN \A d \in others :
           /\ slot[d] = atCall[t].slot[d]
           /\ slot[d] # None => slot[d] \in live

\* an open of each direction has succeeded, the later one while the other
\* slot held a connection, and both slots hold theirs
C15_Witness ==
  \E t \in SeqThreads :
    /\ pc[t] = "done" /\ cmd[t] \in Opens /\ result[t].ok
    /\ slot["input"] # None /\ slot["output"] # None
    /\ slot["input"] \in live /\ slot["output"] \in live
    /\ atCall[t].slot[IF cmd[t] = "midi_open_input" THEN "output" ELSE "input"] # None

\* C16: with two opens of one direction running at the same time, no state
\* has two open connections of that direction.
C16_OneLiveConcurrent ==
  \A d \in Dirs : \A c1, c2 \in LiveOf(d) : c1 = c2

\* C17 (as claimed): every transmit of a midi_send is on a connection that is
\* open and is the slot's from the start of the transmit to its end, with the
\* output guard held throughout; a send that transmits nothing has failed
\* with the not-connected error.
C17_TransmitOrNotConnected ==
  \A t \in Threads :
    /\ (cmd[t] = "midi_send" /\ pc[t] = "sending") =>
         (conn[t] \in live /\ slot["output"] = conn[t] /\ holder["output"] = t)
    /\ \A i \in 1..Len(tx[t]) : tx[t][i].open /\ tx[t][i].inSlot
    /\ (Returned(t, "midi_send") /\ tx[t] = <<>>) => result[t] = Err(ErrNotConnected)

\* C17 (amended): every transmit of a midi_send is on a connection that is
\* open and is the slot's from the start of the transmit to its end, with the
\* output guard held throughout; a send that transmits nothing has failed
\* with the not-connected error or, on a poisoned lock, the lock error.
C17_TransmitOnLive ==
  \A t \in Threads :
    /\ (cmd[t] = "midi_send" /\ pc[t] = "sending") =>
         (conn[t] \in live /\ slot["output"] = conn[t] /\ holder["output"] = t)
    /\ \A i \in 1..Len(tx[t]) : tx[t][i].open /\ tx[t][i].inSlot
    /\ (Returned(t, "midi_send") /\ tx[t] = <<>>) =>
         \/ result[t] = Err(ErrNotConnected)
         \/ result[t] = Err(ErrLock) /\ poisoned["output"]

\* a send is transmitting on the slot's connection while a midi_open_output
\* on the other thread waits for the output guard to drop that connection
C17_Witness ==
  \E t, u \in Threads :
    /\ t # u
    /\ cmd[t] = "midi_send" /\ pc[t] = "sending"
    /\ cmd[u] = "midi_open_output" /\ pc[u] = "lock_old"
    /\ slot["output"] = conn[t]
    /\ ~poisoned["output"]

\* C18: an open that returned the platform's connect error had a valid index
\* and leaves its slot empty with no connection of its direction open, the
\* connection the slot held at the call closed and not put back; and a
\* midi_send called on an empty output slot, the lock not poisoned, transmits
\* nothing and fails with the not-connected error.
C18_ConnectFailureEmpties ==
  \A t \in Threads :
    /\ (pc[t] = "done" /\ cmd[t] \in Opens /\ result[t] = Err(ErrConnect)) =>
         /\ arg[t] < Len(ports[t])
         /\ slot[DirOf(cmd[t])] = None
         /\ LiveOf(DirOf(cmd[t])) = {}
         /\ atCall[t].slot[DirOf(cmd[t])] # None =>
              /\ atCall[t].slot[DirOf(cmd[t])].id \in released
              /\ atCall[t].slot[DirOf(cmd[t])] \notin live
    /\ (/\ Returned(t, "midi_send")
        /\ atCall[t].slot["output"] = None
        /\ ~poisoned["output"]) =>
         (result[t] = Err(ErrNotConnected) /\ tx[t] = <<>>)

\* a midi_send has failed with not-connected on a healthy lock after a
\* connection had been active: the open that dropped it failed to connect
C18_Witness ==
  \E t \in Threads :
    /\ Returned(t, "midi_send")
    /\ result[t] = Err(ErrNotConnected)
    /\ slot["output"] = None
    /\ released # {}
    /\ ~poisoned["output"]

\* C19: every open connection is either held by its direction's slot or is
\* the local of an open that is about to store it; so when no command is
\* running, the only open connection of a direction is the one in its slot,
\* and every connection ever made that is not in a slot has been closed.
C19_NoLeak ==
  /\ \A c \in live :
       \/ slot[c.dir] = c
       \/ \E t \in Threads : conn[t] = c /\ pc[t] \in {"lock_new", "store"}
  /\ (\A t \in Threads : pc[t] \in {"idle", "done"}) =>
       /\ \A d \in Dirs : LiveOf(d) = Drop(slot[d])
       /\ \A id \in 1..nextId :
            \/ id \in released
            \/ \E d \in Dirs : slot[d].id = id

\* two opens of one direction that ran at the same time (both were called on
\* the same slot contents) have both succeeded, and the connection the first
\* of them stored has been closed by the second
C19_Witness ==
  \E t, u \in Threads :
    /\ t # u
    /\ pc[t] = "done" /\ pc[u] = "done"
    /\ cmd[t] \in Opens /\ cmd[u] = cmd[t]
    /\ result[t].ok /\ result[u].ok
    /\ atCall[t].slot = atCall[u].slot
    /\ nextId = 2
    /\ Cardinality(released) = 1

\* C20: a command that has returned holds no slot lock; whenever a command
\* is running, it or the thread or callback run it waits for can take a step
\* (no deadlock); and, the threads being scheduled, every command that was
\* called returns.
C20_ReturnsUnlocked ==
  /\ [](\A t \in Threads :
          /\ pc[t] \in {"idle", "done"} => \A d \in Dirs : holder[d] # t
          /\ pc[t] \notin {"idle", "done"} =>
               \/ ENABLED Step(t)
               \/ \E u \in Threads \ {t} : ENABLED Step(u)
               \/ ENABLED CallbackEnd)
  /\ \A t \in Threads : (pc[t] = "entry") ~> (pc[t] = "done")

\* an open holds the input slot's lock and, to store its connection, waits
\* for a run of the callback of the connection it overwrites to end; that
\* connection was stored by the other thread's open
C20_Witness ==
  \E t, u \in Threads :
    /\ t # u
    /\ cmd[t] = "midi_open_input" /\ pc[t] = "store" /\ holder["input"] = t
    /\ slot["input"] # None
    /\ \E r \in running : r.conn = slot["input"]
    /\ Returned(u, "midi_open_input") /\ result[u].ok

====
